---------------------------- MODULE Spec2Model ----------------------------
(***************************************************************************)
(* A model of the file organizer: the File Mover (FileHandler), the        *)
(* Orchestrator (organize), the Configuration Store (Config) and the       *)
(* Status Reporter.                                                         *)
(*                                                                         *)
(* File and folder names are sequences of one-character strings, so that   *)
(* pathlib's stem, suffix and path joining are computed, not assumed.      *)
(* A path is a sequence of names below the file system's top; the file     *)
(* system is a function from the existing paths to their nodes.            *)
(* POSIX semantics of mkdir(2) and rename(2) are modelled.                 *)
(***************************************************************************)
EXTENDS Integers, Sequences, FiniteSets, TLC

VARIABLES
    fs,           \* the file system: existing path -> node
    ro,           \* the directories the process may not write to
    folder_path,  \* FileHandler._folder_path
    last,         \* the last File Mover call: arguments, outcome, file system before
    configs,      \* Config.configs, the in-memory configuration
    cfgFile,      \* the configuration file's content (NoFile when missing)
    cfgLast,      \* the last Config call: arguments, outcome, file before
    pc,           \* organize's position
    idx,          \* organize's folder index i
    todo,         \* the names iterdir() listed and get_files has not reached yet
    out,          \* what was printed to the console, in order
    reported,     \* the display_status calls made, in order
    raised,       \* the exception that left organize ("none" while there is none)
    fs0,          \* history: the file system when the current folder was listed
    fsRun,        \* history: the file system when organize was called
    messages,     \* ConsoleManager.messages, the (formatted message, flag) pairs
    stream,       \* everything written to ConsoleManager.stream, in order
    screen,       \* what the terminal shows since it was last cleared
    output_level, \* ConsoleManager.output_level
    conLast       \* the last ConsoleManager call: arguments, outcome, state before

vars == <<fs, ro, folder_path, last, configs, cfgFile, cfgLast,
          pc, idx, todo, out, reported, raised, fs0, fsRun,
          messages, stream, screen, output_level, conLast>>

moverVars == <<fs, ro, folder_path, last>>
configVars == <<configs, cfgFile, cfgLast>>
runVars == <<pc, idx, todo, out, reported, raised, fs0, fsRun>>
consoleVars == <<messages, stream, screen, output_level, conLast>>

-----------------------------------------------------------------------------
(* Bounds of the model *)

\* the numbered duplicates "a (1).t" .. "a (MaxDup).t" a target folder may hold at the start
MaxDup == 2

\* the messages a ConsoleManager is given to remember
MaxMessages == 2

\* the writes to the stream after which no further call is made
MaxStream == 4

-----------------------------------------------------------------------------
(* Names and paths *)

\* a value that is neither a str nor a pathlib.Path
NotStr == <<"<not-a-str>">>

S_x == <<"x">>
S_a_t == <<"a", ".", "t">>
S_b_p == <<"b", ".", "p">>
S_dot_h == <<".", "h">>
S_D == <<"D">>
S_s == <<"s">>
S_D_s == <<"D", "/", "s">>
OTHERS == <<"O", "T", "H", "E", "R", "S">>
Ext_t == <<".", "t">>
Ext_p == <<".", "p">>

\* the position of the last ch in s, 0 when there is none (str.rfind, 1-based)
RECURSIVE RFindFrom(_, _, _)
RFindFrom(s, ch, i) ==
    IF i = 0 THEN 0
    ELSE IF s[i] = ch THEN i
    ELSE RFindFrom(s, ch, i - 1)

RFind(s, ch) == RFindFrom(s, ch, Len(s))

\* pathlib's PurePath.suffix of a name: from the last dot, unless that dot is the
\* name's first or last character
Suffix(name) ==
    LET j == RFind(name, ".")
    IN  IF 1 < j /\ j < Len(name) THEN SubSeq(name, j, Len(name)) ELSE <<>>

\* pathlib's PurePath.stem
Stem(name) ==
    LET j == RFind(name, ".")
    IN  IF 1 < j /\ j < Len(name) THEN SubSeq(name, 1, j - 1) ELSE name

DigitChar(d) ==
    CASE d = 0 -> "0" [] d = 1 -> "1" [] d = 2 -> "2" [] d = 3 -> "3" [] d = 4 -> "4"
      [] d = 5 -> "5" [] d = 6 -> "6" [] d = 7 -> "7" [] d = 8 -> "8" [] d = 9 -> "9"

\* str(n) of a natural number
RECURSIVE IntToStr(_)
IntToStr(n) ==
    IF n < 10 THEN <<DigitChar(n)>>
    ELSE IntToStr(n \div 10) \o <<DigitChar(n % 10)>>

\* f"{stem} ({counter}){suffix}"
DupName(name, counter) ==
    Stem(name) \o <<" ", "(">> \o IntToStr(counter) \o <<")">> \o Suffix(name)

\* the components of a relative path string: split at "/", empty and "." parts dropped
RECURSIVE PartsFrom(_, _, _)
PartsFrom(s, i, cur) ==
    LET keep == IF cur = <<>> \/ cur = <<".">> THEN <<>> ELSE <<cur>>
    IN  IF i > Len(s) THEN keep
        ELSE IF s[i] = "/" THEN keep \o PartsFrom(s, i + 1, <<>>)
        ELSE PartsFrom(s, i + 1, Append(cur, s[i]))

Parts(s) == PartsFrom(s, 1, <<>>)

\* self._folder_path / name, for a relative name
PathJoin(root, name) == root \o Parts(name)

Parent(p) == SubSeq(p, 1, Len(p) - 1)

BaseName(p) == p[Len(p)]

\* d is p or a path below p
IsUnder(p, d) == Len(d) >= Len(p) /\ SubSeq(d, 1, Len(p)) = p

IsStr(v) == v # NotStr

\* a dict is the sequence of its <<key, value>> items, in insertion order, keys unique
DictHas(d, k) == \E i \in 1 .. Len(d) : d[i][1] = k

DictGet(d, k) == d[CHOOSE i \in 1 .. Len(d) : d[i][1] = k][2]

-----------------------------------------------------------------------------
(* The file system *)

FileNode(c) == [kind |-> "file", content |-> c]
DirNode == [kind |-> "dir", content |-> 0]
\* a FIFO, socket or device: exists, and is neither a regular file nor a directory
SpecialNode == [kind |-> "special", content |-> 0]

Exists(f, p) == p \in DOMAIN f
IsFile(f, p) == p \in DOMAIN f /\ f[p].kind = "file"
IsDir(f, p) == p \in DOMAIN f /\ f[p].kind = "dir"

Result(e, f) == [err |-> e, fs |-> f]

\* f with node nd at path p
WithNode(f, p, nd) == [q \in DOMAIN f \cup {p} |-> IF q = p THEN nd ELSE f[q]]

\* f without path p
WithoutNode(f, p) == [q \in DOMAIN f \ {p} |-> f[q]]

\* mkdir(2): the path walk's errors, then EEXIST, then EACCES
OsMkdir(f, p) ==
    IF ~Exists(f, Parent(p)) THEN Result("FileNotFoundError", f)
    ELSE IF ~IsDir(f, Parent(p)) THEN Result("NotADirectoryError", f)
    ELSE IF Exists(f, p) THEN Result("FileExistsError", f)
    ELSE IF Parent(p) \in ro THEN Result("PermissionError", f)
    ELSE Result("ok", WithNode(f, p, DirNode))

\* pathlib's Path.mkdir(parents, exist_ok=True)
RECURSIVE PathMkdir(_, _, _)
PathMkdir(f, p, parents) ==
    LET r == OsMkdir(f, p)
    IN  IF r.err = "ok" THEN r
        ELSE IF r.err = "FileNotFoundError" THEN
            IF ~parents \/ Len(p) <= 1 THEN r
            ELSE LET up == PathMkdir(f, Parent(p), TRUE)
                 IN  IF up.err # "ok" THEN up ELSE PathMkdir(up.fs, p, FALSE)
        ELSE IF IsDir(f, p) THEN Result("ok", f)
        ELSE r

\* rename(2) of a non-directory src: the same path is a no-op; write permission on
\* both parents; never onto a directory; otherwise dst is replaced
OsRename(f, src, dst) ==
    IF src = dst THEN Result("ok", f)
    ELSE IF Parent(src) \in ro \/ Parent(dst) \in ro THEN Result("PermissionError", f)
    ELSE IF IsDir(f, dst) THEN Result("IsADirectoryError", f)
    ELSE Result("ok", WithNode(WithoutNode(f, src), dst, f[src]))

\* os.listdir(root): the names of root's entries
ListDir(f, root) ==
    {BaseName(p) : p \in {q \in DOMAIN f : Len(q) = Len(root) + 1 /\ Parent(q) = root}}

-----------------------------------------------------------------------------
(* FileHandler, the File Mover *)

\* the folder_path setter: the path is kept only if it is a directory
SetFolderPath(f, cur, p) ==
    IF IsDir(f, p) THEN [err |-> "ok", folder_path |-> p]
    ELSE [err |-> "NotADirectoryError", folder_path |-> cur]

\* get_files without its test for a leading "."
GetFilesWithHidden(f, root) ==
    {n \in ListDir(f, root) : IsFile(f, root \o <<n>>)}

\* get_files run to its end on an unchanging file system: the names it yields
GetFiles(f, root) ==
    {n \in ListDir(f, root) : IsFile(f, root \o <<n>>) /\ n[1] # "."}

\* create_folder that refuses any existing entry, a directory too
CreateFolderRefusesExisting(f, root, folder_name) ==
    IF ~IsStr(folder_name) THEN Result("TypeError", f)
    ELSE LET target_path == PathJoin(root, folder_name)
         IN  IF Exists(f, target_path)
             THEN Result("FileExistsError", f)
             ELSE PathMkdir(f, target_path, TRUE)

CreateFolder(f, root, folder_name) ==
    IF ~IsStr(folder_name) THEN Result("TypeError", f)
    ELSE LET target_path == PathJoin(root, folder_name)
         IN  IF Exists(f, target_path) /\ IsFile(f, target_path)
             THEN Result("FileExistsError", f)
             ELSE PathMkdir(f, target_path, TRUE)

\* the keep_dup loop: the first of name, "stem (1)suffix", "stem (2)suffix", ...
\* that does not exist in target_path
RECURSIVE FreeTarget(_, _, _, _, _)
FreeTarget(f, target_path, name, target_file_path, counter) ==
    IF Exists(f, target_file_path)
    THEN FreeTarget(f, target_path, name,
                    target_path \o <<DupName(name, counter)>>, counter + 1)
    ELSE target_file_path

\* the keep_dup loop with its counter started at 0
TargetFilePathFromZero(f, file_path, target_path, keep_dup) ==
    LET target_file_path == target_path \o <<BaseName(file_path)>>
    IN  IF keep_dup
        THEN FreeTarget(f, target_path, BaseName(file_path), target_file_path, 0)
        ELSE target_file_path

\* the path move_file renames the file to
TargetFilePath(f, file_path, target_path, keep_dup) ==
    LET target_file_path == target_path \o <<BaseName(file_path)>>
    IN  IF keep_dup
        THEN FreeTarget(f, target_path, BaseName(file_path), target_file_path, 1)
        ELSE target_file_path

\* move_file that numbers duplicates whatever keep_dup says
MoveFileAlwaysKeeps(f, root, file, folder_name, keep_dup) ==
    IF ~IsStr(file) THEN Result("TypeError", f)
    ELSE IF ~IsStr(folder_name) THEN Result("TypeError", f)
    ELSE LET file_path == PathJoin(root, file)
             target_path == PathJoin(root, folder_name)
         IN  IF ~IsFile(f, file_path) THEN Result("FileNotFoundError", f)
             ELSE IF ~IsDir(f, target_path) THEN Result("NotADirectoryError", f)
             ELSE OsRename(f, file_path,
                           TargetFilePath(f, file_path, target_path, TRUE))

\* move_file that checks the target folder before the file
MoveFileChecksTargetFirst(f, root, file, folder_name, keep_dup) ==
    IF ~IsStr(file) THEN Result("TypeError", f)
    ELSE IF ~IsStr(folder_name) THEN Result("TypeError", f)
    ELSE LET file_path == PathJoin(root, file)
             target_path == PathJoin(root, folder_name)
         IN  IF ~IsDir(f, target_path) THEN Result("NotADirectoryError", f)
             ELSE IF ~IsFile(f, file_path) THEN Result("FileNotFoundError", f)
             ELSE OsRename(f, file_path,
                           TargetFilePath(f, file_path, target_path, keep_dup))

\* move_file that never looks for a free name
MoveFileNeverKeeps(f, root, file, folder_name, keep_dup) ==
    IF ~IsStr(file) THEN Result("TypeError", f)
    ELSE IF ~IsStr(folder_name) THEN Result("TypeError", f)
    ELSE LET file_path == PathJoin(root, file)
             target_path == PathJoin(root, folder_name)
         IN  IF ~IsFile(f, file_path) THEN Result("FileNotFoundError", f)
             ELSE IF ~IsDir(f, target_path) THEN Result("NotADirectoryError", f)
             ELSE OsRename(f, file_path,
                           TargetFilePath(f, file_path, target_path, FALSE))

MoveFile(f, root, file, folder_name, keep_dup) ==
    IF ~IsStr(file) THEN Result("TypeError", f)
    ELSE IF ~IsStr(folder_name) THEN Result("TypeError", f)
    ELSE LET file_path == PathJoin(root, file)
             target_path == PathJoin(root, folder_name)
         IN  IF ~IsFile(f, file_path) THEN Result("FileNotFoundError", f)
             ELSE IF ~IsDir(f, target_path) THEN Result("NotADirectoryError", f)
             ELSE OsRename(f, file_path,
                           TargetFilePath(f, file_path, target_path, keep_dup))

-----------------------------------------------------------------------------
(* The file systems a behaviour may start from *)

\* the root folder and the target folders under it
X == <<S_x>>
XD == <<S_x, S_D>>
XDs == <<S_x, S_D, S_s>>
XO == <<S_x, OTHERS>>

Node(kind, c) ==
    CASE kind = "file" -> FileNode(c)
      [] kind = "dir" -> DirNode
      [] kind = "special" -> SpecialNode

Entry(p, kind, c) == IF kind = "absent" THEN {} ELSE {<<p, Node(kind, c)>>}

MkFs(entries) ==
    [p \in {e[1] : e \in entries} |-> (CHOOSE e \in entries : e[1] = p)[2]]

\* every file of a tree has a content of its own: x/a.t 1, x/b.p 2, x/.h 3, x/D 4,
\* x/OTHERS 5, x/D/a.t 6, x/D/b.p 7, x/D/"a (k).t" 10 + k
Tree(ka, kb, kh, kD, kO, kDa, kDb, dups) ==
    {<<X, DirNode>>}
      \cup Entry(X \o <<S_a_t>>, ka, 1)
      \cup Entry(X \o <<S_b_p>>, kb, 2)
      \cup Entry(X \o <<S_dot_h>>, kh, 3)
      \cup Entry(XD, kD, 4)
      \cup Entry(XO, kO, 5)
      \cup (IF kD = "dir"
            THEN Entry(XD \o <<S_a_t>>, kDa, 6)
                   \cup Entry(XD \o <<S_b_p>>, kDb, 7)
                   \cup {<<XD \o <<DupName(S_a_t, k)>>, FileNode(10 + k)>> : k \in dups}
            ELSE {})

\* the regular file an outside process writes
ExternalFile == FileNode(9)

NoCall ==
    [op |-> "none", file |-> <<>>, folder |-> <<>>, keep |-> FALSE,
     err |-> "ok", files |-> {}, pre |-> <<>>]

\* no configuration file
NoFile == [exists |-> FALSE, members |-> <<>>]

\* a str or list argument left at its default, None
None == [given |-> FALSE, typeok |-> TRUE, val |-> <<>>]

NoConfigCall ==
    [op |-> "none", err |-> "ok", pre |-> NoFile,
     ext |-> None, paths |-> None, dup |-> None, level |-> None]

ConfigIdle == configs = <<>> /\ cfgFile = NoFile /\ cfgLast = NoConfigCall

\* the flag argument left at its default, None
NoFlag == [none |-> TRUE]

NoConsoleCall ==
    [op |-> "none", msg |-> "", flag |-> NoFlag, err |-> "ok",
     messages |-> <<>>, stream |-> <<>>, screen |-> <<>>]

ConsoleIdle ==
    /\ messages = <<>> /\ stream = <<>> /\ screen = <<>>
    /\ output_level = "failed" /\ conLast = NoConsoleCall

RunIdle ==
    /\ pc = "idle" /\ idx = 0 /\ todo = {} /\ out = <<>> /\ reported = <<>>
    /\ raised = "none" /\ fs0 = <<>> /\ fsRun = <<>>

-----------------------------------------------------------------------------
(* The File Mover's operations, called in any order on one FileHandler *)

FolderArgs == {S_D, S_D_s, NotStr}
FileArgs == {S_a_t, S_dot_h, S_D, NotStr}

MoverInit ==
    /\ \E ka \in {"absent", "file", "dir"}, kh \in {"absent", "file"},
          kD \in {"absent", "file", "special", "dir"},
          kDa \in {"absent", "file", "dir", "special"},
          dups \in SUBSET (1 .. MaxDup) :
            /\ kD # "dir" => (kDa = "absent" /\ dups = {})
            /\ fs = MkFs(Tree(ka, "absent", kh, kD, "absent", kDa, "absent", dups))
    /\ ro \in {{}, {X}, {XD}}
    /\ \A d \in ro : IsDir(fs, d)
    /\ folder_path = X
    /\ last = NoCall
    /\ ConfigIdle
    /\ RunIdle
    /\ ConsoleIdle

DoCreateFolder(folder_name) ==
    LET r == CreateFolder(fs, folder_path, folder_name)
    IN  /\ fs' = r.fs
        /\ last' = [op |-> "create_folder", file |-> <<>>, folder |-> folder_name,
                    keep |-> FALSE, err |-> r.err, files |-> {}, pre |-> fs]
        /\ UNCHANGED <<ro, folder_path, configVars, runVars, consoleVars>>

DoMoveFile(file, folder_name, keep_dup) ==
    LET r == MoveFile(fs, folder_path, file, folder_name, keep_dup)
    IN  /\ fs' = r.fs
        /\ last' = [op |-> "move_file", file |-> file, folder |-> folder_name,
                    keep |-> keep_dup, err |-> r.err, files |-> {}, pre |-> fs]
        /\ UNCHANGED <<ro, folder_path, configVars, runVars, consoleVars>>

DoGetFiles ==
    /\ last' = [op |-> "get_files", file |-> <<>>, folder |-> <<>>, keep |-> FALSE,
                err |-> "ok", files |-> GetFiles(fs, folder_path), pre |-> fs]
    /\ UNCHANGED <<fs, ro, folder_path, configVars, runVars, consoleVars>>

\* another process replaces a directory (and what is in it) by a regular file
ExternalReplace(p) ==
    /\ IsDir(fs, p)
    /\ fs' = [q \in {p} \cup {d \in DOMAIN fs : ~IsUnder(p, d)}
                |-> IF q = p THEN ExternalFile ELSE fs[q]]
    /\ last' = [op |-> "external", file |-> <<>>, folder |-> <<>>, keep |-> FALSE,
                err |-> "ok", files |-> {}, pre |-> fs]
    /\ UNCHANGED <<ro, folder_path, configVars, runVars, consoleVars>>

MoverNext ==
    \/ \E folder_name \in FolderArgs : DoCreateFolder(folder_name)
    \/ \E file \in FileArgs, folder_name \in FolderArgs, keep_dup \in BOOLEAN :
          DoMoveFile(file, folder_name, keep_dup)
    \/ DoGetFiles
    \/ \E p \in {XD, XDs} : ExternalReplace(p)

SpecMover == MoverInit /\ [][MoverNext]_vars

-----------------------------------------------------------------------------
(* organize, the Orchestrator *)

P_x == <<"/", "x">>
P_xD == <<"/", "x", "/", "D">>

\* Config.display_status: what the console shows after the call
DisplayStatus(cfg, o, status, msg) ==
    IF DictGet(cfg, "status_level") # "all" /\ DictGet(cfg, "status_level") # status
    THEN o
    ELSE IF status \notin {"success", "failed"} THEN o
    ELSE Append(o, [kind |-> "status", status |-> status, msg |-> msg])

\* the except clauses without PermissionError
CaughtWithoutPermission ==
    {"TypeError", "FileExistsError", "FileNotFoundError", "NotADirectoryError"}

\* the exceptions organize's except clauses catch
Caught ==
    {"TypeError", "FileExistsError", "FileNotFoundError", "NotADirectoryError",
     "PermissionError"}

\* the lookup made with the file's name in place of its extension
TargetFolderByName(cfg, name) ==
    IF DictHas(DictGet(cfg, "extension_to_folder"), name)
    THEN DictGet(DictGet(cfg, "extension_to_folder"), name)
    ELSE OTHERS

\* the target folder of a file: the extension's folder, "OTHERS" when it has none
TargetFolder(cfg, name) ==
    IF DictHas(DictGet(cfg, "extension_to_folder"), Suffix(name))
    THEN DictGet(DictGet(cfg, "extension_to_folder"), Suffix(name))
    ELSE OTHERS

\* the try block: create_folder, then move_file. The outcome, and the call it came from
CreateAndMove(f, root, name, target_folder, keep_dup) ==
    LET c == CreateFolder(f, root, target_folder)
        m == MoveFile(c.fs, root, name, target_folder, keep_dup)
    IN  IF c.err # "ok"
        THEN [op |-> "create_folder", err |-> c.err, fs |-> c.fs]
        ELSE [op |-> "move_file", err |-> m.err, fs |-> m.fs]

\* the message display_status is given
StatusMsg(i, name, target_folder, err) ==
    [idx |-> i, file |-> name, folder |-> target_folder, error |-> err]

RunInit ==
    /\ \E kb \in {"absent", "file"},
          kD \in {"absent", "file", "special", "dir"}, kO \in {"absent", "file"},
          kDa \in {"absent", "file", "dir"}, d \in 0 .. MaxDup :
            /\ kD # "dir" => kDa = "absent"
            /\ kDa = "absent" => d = 0
            /\ fs = MkFs(Tree("file", kb, "file", kD, kO, kDa, "absent", 1 .. d))
    /\ ro \in {{}, {X}, {XD}}
    /\ \A d \in ro : IsDir(fs, d)
    /\ \E e2f \in {<<<<Ext_t, S_D>>>>, <<<<Ext_t, S_D_s>>, <<Ext_p, S_D>>>>},
          fp \in {<<P_x>>, <<P_x, P_xD>>},
          kd \in BOOLEAN, sl \in {"all", "success", "failed"} :
            configs = <<<<"extension_to_folder", e2f>>, <<"folder_paths", fp>>,
                        <<"keep_duplicates", kd>>, <<"status_level", sl>>>>
    /\ cfgFile = NoFile /\ cfgLast = NoConfigCall
    /\ ConsoleIdle
    /\ folder_path = <<>>
    /\ last = NoCall
    /\ pc = "folder" /\ idx = 1 /\ todo = {} /\ out = <<>> /\ reported = <<>>
    /\ raised = "none" /\ fs0 = fs /\ fsRun = fs

\* the head of the loop over the folders: set the handler's folder, print the start
\* banner, and list the folder (iterdir lists it whole before get_files yields)
StartFolder ==
    /\ pc = "folder"
    /\ LET r == SetFolderPath(fs, folder_path, Parts(DictGet(configs, "folder_paths")[idx]))
       IN  IF r.err # "ok"
           THEN /\ pc' = "raised" /\ raised' = r.err
                /\ UNCHANGED <<folder_path, todo, out, fs0>>
           ELSE /\ folder_path' = r.folder_path
                /\ out' = Append(out, [kind |-> "start", idx |-> idx])
                /\ todo' = ListDir(fs, r.folder_path)
                /\ fs0' = fs
                /\ pc' = "files"
                /\ UNCHANGED raised
    /\ UNCHANGED <<fs, ro, last, idx, reported, configVars, consoleVars, fsRun>>

\* get_files' test of a listed entry, made when the generator reaches it
Yields(f, root, n) == IsFile(f, root \o <<n>>) /\ n[1] # "."

\* get_files passes over the listed entries that are not regular files or are
\* hidden, yields the next file, and the loop body handles it
ProcessFile(n) ==
    /\ pc = "files" /\ n \in todo
    /\ Yields(fs, folder_path, n)
    /\ LET target_folder == TargetFolder(configs, n)
           r == CreateAndMove(fs, folder_path, n, target_folder,
                              DictGet(configs, "keep_duplicates"))
           status == IF r.err = "ok" THEN "success" ELSE "failed"
           msg == StatusMsg(idx, n, target_folder, r.err)
       IN  /\ fs' = r.fs
           /\ last' = [op |-> r.op, file |-> n, folder |-> target_folder,
                       keep |-> DictGet(configs, "keep_duplicates"), err |-> r.err,
                       files |-> {}, pre |-> fs]
           /\ IF r.err = "ok" \/ r.err \in Caught
              THEN /\ out' = DisplayStatus(configs, out, status, msg)
                   /\ reported' = Append(reported, [status |-> status, msg |-> msg])
                   /\ todo' = todo \ {n}
                   /\ UNCHANGED <<pc, raised>>
              ELSE /\ pc' = "raised" /\ raised' = r.err
                   /\ UNCHANGED <<out, reported, todo>>
    /\ UNCHANGED <<ro, folder_path, idx, fs0, configVars, consoleVars, fsRun>>

\* get_files passes over what is left of the listing and ends: print the completion
\* banner, go to the next folder
\* the completion banner printed without waiting for the files
EndFolderEarly ==
    /\ pc = "files"
    /\ out' = Append(out, [kind |-> "end", idx |-> idx])
    /\ idx' = idx + 1
    /\ pc' = IF idx + 1 > Len(DictGet(configs, "folder_paths")) THEN "done" ELSE "folder"
    /\ todo' = {}
    /\ UNCHANGED <<fs, ro, folder_path, last, reported, raised, fs0, configVars, consoleVars, fsRun>>

EndFolder ==
    /\ pc = "files"
    /\ \A n \in todo : ~Yields(fs, folder_path, n)
    /\ out' = Append(out, [kind |-> "end", idx |-> idx])
    /\ idx' = idx + 1
    /\ pc' = IF idx + 1 > Len(DictGet(configs, "folder_paths")) THEN "done" ELSE "folder"
    /\ todo' = {}
    /\ UNCHANGED <<fs, ro, folder_path, last, reported, raised, fs0, configVars, consoleVars, fsRun>>

Init == RunInit

Next ==
    \/ StartFolder
    \/ \E n \in todo : ProcessFile(n)
    \/ EndFolder

Spec == Init /\ [][Next]_vars

\* organize runs on: a step of the loops that stays possible is taken. For the
\* loop body this is weak fairness written out, its enabling condition being that
\* get_files still has a file to yield
FairSpec ==
    /\ Spec
    /\ WF_vars(StartFolder)
    /\ WF_vars(EndFolder)
    /\ \/ []<>(~(pc = "files" /\ \E n \in todo : Yields(fs, folder_path, n)))
       \/ []<><<\E n \in todo : ProcessFile(n)>>_vars

-----------------------------------------------------------------------------
(* Config, the Configuration Store *)

\* d[k] = v on a dict: an existing key keeps its place
DictSet(d, k, v) ==
    IF DictHas(d, k)
    THEN [i \in 1 .. Len(d) |-> IF d[i][1] = k THEN <<k, v>> ELSE d[i]]
    ELSE Append(d, <<k, v>>)

\* json.load of an object: its members in order, a repeated key's last value kept
RECURSIVE JsonLoadFrom(_, _, _)
JsonLoadFrom(members, i, d) ==
    IF i > Len(members) THEN d
    ELSE JsonLoadFrom(members, i + 1, DictSet(d, members[i][1], members[i][2]))

JsonLoad(members) == JsonLoadFrom(members, 1, <<>>)

\* json.dump of a dict: its items in order
JsonDump(d) == [exists |-> TRUE, members |-> d]

ConfigResult(e, c) == [err |-> e, configs |-> c]

\* get_configs that refuses 20 folders
GetConfigsBelowTwenty(file) ==
    IF ~file.exists THEN ConfigResult("FileNotFoundError", <<>>)
    ELSE LET config_data == JsonLoad(file.members)
         IN  IF ~DictHas(config_data, "extension_to_folder")
             THEN ConfigResult("KeyError", <<>>)
             ELSE IF ~DictHas(config_data, "folder_paths")
             THEN ConfigResult("KeyError", <<>>)
             ELSE IF Len(DictGet(config_data, "folder_paths")) = 0
             THEN ConfigResult("ValueError", <<>>)
             ELSE IF Len(DictGet(config_data, "folder_paths")) >= 20
             THEN ConfigResult("ValueError", <<>>)
             ELSE IF ~DictHas(config_data, "keep_duplicates")
             THEN ConfigResult("KeyError", <<>>)
             ELSE IF ~DictHas(config_data, "status_level")
             THEN ConfigResult("KeyError", <<>>)
             ELSE ConfigResult("ok", config_data)

GetConfigs(file) ==
    IF ~file.exists THEN ConfigResult("FileNotFoundError", <<>>)
    ELSE LET config_data == JsonLoad(file.members)
         IN  IF ~DictHas(config_data, "extension_to_folder")
             THEN ConfigResult("KeyError", <<>>)
             ELSE IF ~DictHas(config_data, "folder_paths")
             THEN ConfigResult("KeyError", <<>>)
             ELSE IF Len(DictGet(config_data, "folder_paths")) = 0
             THEN ConfigResult("ValueError", <<>>)
             ELSE IF Len(DictGet(config_data, "folder_paths")) > 20
             THEN ConfigResult("ValueError", <<>>)
             ELSE IF ~DictHas(config_data, "keep_duplicates")
             THEN ConfigResult("KeyError", <<>>)
             ELSE IF ~DictHas(config_data, "status_level")
             THEN ConfigResult("KeyError", <<>>)
             ELSE ConfigResult("ok", config_data)

\* str.strip, of blanks
RECURSIVE Strip(_)
Strip(t) ==
    IF t = <<>> THEN t
    ELSE IF t[1] = " " THEN Strip(SubSeq(t, 2, Len(t)))
    ELSE IF t[Len(t)] = " " THEN Strip(SubSeq(t, 1, Len(t) - 1))
    ELSE t

\* the position of the first ch in t from i on, 0 when there is none
RECURSIVE FindFrom(_, _, _)
FindFrom(t, ch, i) ==
    IF i > Len(t) THEN 0
    ELSE IF t[i] = ch THEN i
    ELSE FindFrom(t, ch, i + 1)

\* str.split(" ", 1)
SplitOnce(t) ==
    LET i == FindFrom(t, " ", 1)
    IN  IF i = 0 THEN <<t>>
        ELSE <<SubSeq(t, 1, i - 1), SubSeq(t, i + 1, Len(t))>>

\* the loop over the "ext folder" entries: each well-formed one is put in the map
RECURSIVE MergeExtensions(_, _, _)
MergeExtensions(e2f, entries, i) ==
    IF i > Len(entries) THEN e2f
    ELSE LET data == Strip(entries[i])
             data_parts == SplitOnce(data)
         IN  IF data # <<>> /\ Len(data_parts) = 2 /\ FindFrom(data_parts[1], ".", 1) # 0
             THEN MergeExtensions(DictSet(e2f, data_parts[1], Strip(data_parts[2])),
                                  entries, i + 1)
             ELSE MergeExtensions(e2f, entries, i + 1)

\* the configuration set_configs builds from the file's and the arguments
UpdatedConfig(config_data, ext, paths, dup, level) ==
    LET c1 == IF ext.given
              THEN DictSet(config_data, "extension_to_folder",
                           MergeExtensions(DictGet(config_data, "extension_to_folder"),
                                           ext.val, 1))
              ELSE config_data
        c2 == IF paths.given /\ 0 < Len(paths.val) /\ Len(paths.val) < 20
              THEN DictSet(c1, "folder_paths", paths.val)
              ELSE c1
        c3 == IF dup.given
              THEN DictSet(c2, "keep_duplicates", dup.val = "true")
              ELSE c2
        c4 == IF level.given /\ level.val \in {"all", "success", "failed"}
              THEN DictSet(c3, "status_level", level.val)
              ELSE c3
    IN  c4

\* set_configs that sets keep_duplicates also when it is not given
SetConfigsAlwaysSetsDup(file, cur, ext, paths, dup, level) ==
    IF ~(ext.typeok /\ paths.typeok /\ dup.typeok /\ level.typeok)
    THEN [err |-> "TypeError", configs |-> cur, file |-> file]
    ELSE IF ~file.exists
    THEN [err |-> "FileNotFoundError", configs |-> cur, file |-> file]
    ELSE LET config_data ==
                 UpdatedConfig(JsonLoad(file.members), ext, paths,
                               [given |-> TRUE, typeok |-> TRUE, val |-> dup.val], level)
         IN  [err |-> "ok", configs |-> config_data, file |-> JsonDump(config_data)]

\* set_configs that takes a new folder list of any length up to 21
SetConfigsTakesLongLists(file, cur, ext, paths, dup, level) ==
    IF ~(ext.typeok /\ paths.typeok /\ dup.typeok /\ level.typeok)
    THEN [err |-> "TypeError", configs |-> cur, file |-> file]
    ELSE IF ~file.exists
    THEN [err |-> "FileNotFoundError", configs |-> cur, file |-> file]
    ELSE LET base == UpdatedConfig(JsonLoad(file.members), ext, paths, dup, level)
             config_data ==
                 IF paths.given /\ 0 < Len(paths.val) /\ Len(paths.val) <= 21
                 THEN DictSet(base, "folder_paths", paths.val)
                 ELSE base
         IN  [err |-> "ok", configs |-> config_data, file |-> JsonDump(config_data)]

\* set_configs that gives up, changing nothing, when folder_paths or status_level
\* is given a value it does not accept
SetConfigsStopsAtInvalid(file, cur, ext, paths, dup, level) ==
    IF ~(ext.typeok /\ paths.typeok /\ dup.typeok /\ level.typeok)
    THEN [err |-> "TypeError", configs |-> cur, file |-> file]
    ELSE IF ~file.exists
    THEN [err |-> "FileNotFoundError", configs |-> cur, file |-> file]
    ELSE IF \/ paths.given /\ ~(0 < Len(paths.val) /\ Len(paths.val) < 20)
            \/ level.given /\ level.val \notin {"all", "success", "failed"}
    THEN [err |-> "ok", configs |-> cur, file |-> file]
    ELSE LET config_data == UpdatedConfig(JsonLoad(file.members), ext, paths, dup, level)
         IN  [err |-> "ok", configs |-> config_data, file |-> JsonDump(config_data)]

\* set_configs that puts the entries' map in place of the file's
SetConfigsReplacesExtensions(file, cur, ext, paths, dup, level) ==
    IF ~(ext.typeok /\ paths.typeok /\ dup.typeok /\ level.typeok)
    THEN [err |-> "TypeError", configs |-> cur, file |-> file]
    ELSE IF ~file.exists
    THEN [err |-> "FileNotFoundError", configs |-> cur, file |-> file]
    ELSE LET base == UpdatedConfig(JsonLoad(file.members), ext, paths, dup, level)
             config_data ==
                 IF ext.given
                 THEN DictSet(base, "extension_to_folder", MergeExtensions(<<>>, ext.val, 1))
                 ELSE base
         IN  [err |-> "ok", configs |-> config_data, file |-> JsonDump(config_data)]

\* set_configs: the type check, the file read, the overrides, the file rewritten
SetConfigs(file, cur, ext, paths, dup, level) ==
    IF ~(ext.typeok /\ paths.typeok /\ dup.typeok /\ level.typeok)
    THEN [err |-> "TypeError", configs |-> cur, file |-> file]
    ELSE IF ~file.exists
    THEN [err |-> "FileNotFoundError", configs |-> cur, file |-> file]
    ELSE LET config_data == UpdatedConfig(JsonLoad(file.members), ext, paths, dup, level)
         IN  [err |-> "ok", configs |-> config_data, file |-> JsonDump(config_data)]

\* an argument that is given
Given(v) == [given |-> TRUE, typeok |-> TRUE, val |-> v]

\* an argument of a wrong type
BadType == [given |-> TRUE, typeok |-> FALSE, val |-> <<>>]

\* a list of n folder paths
Folders(n) == [i \in 1 .. n |-> IF i % 2 = 1 THEN P_x ELSE P_xD]

\* "ext folder" entries: no dot, blanks around, no folder, blank, an extension
\* given a second time, a new extension
E_nodot == <<"t", " ", "N">>
E_p_M == <<" ", ".", "p", " ", " ", "M", " ">>
E_nofolder == <<".", "t">>
E_blank == <<" ">>
E_p_N == <<".", "p", " ", "N">>
E_q_M == <<".", "q", " ", "M">>

\* the lengths of the folder lists a file starts with and of those given to
\* set_configs, around the limits of 20
FileListLengths == {0, 1, 20, 21}
ListLengths == {0, 1, 19, 20, 21}

\* the configuration files a behaviour may start from: none, or a JSON object with
\* any of the four keys, one of them possibly twice
ConfigFiles ==
    {NoFile} \cup
    {[exists |-> TRUE, members |-> m] :
        m \in {(IF has[1]
                THEN <<<<"extension_to_folder", <<<<Ext_t, S_D>>, <<Ext_p, S_D>>>>>>>>
                ELSE <<>>)
                 \o (IF has[2] THEN <<<<"folder_paths", Folders(n)>>>> ELSE <<>>)
                 \o (IF has[3] THEN <<<<"keep_duplicates", kd>>>> ELSE <<>>)
                 \o (IF has[4] THEN <<<<"status_level", "all">>>> ELSE <<>>)
                 \o (IF twice THEN <<<<"keep_duplicates", ~kd>>>> ELSE <<>>) :
               has \in [1 .. 4 -> BOOLEAN], n \in FileListLengths, kd \in BOOLEAN,
               twice \in BOOLEAN}}

MoverIdle ==
    /\ fs = MkFs({<<X, DirNode>>}) /\ ro = {} /\ folder_path = <<>> /\ last = NoCall

ConfigInit ==
    /\ cfgFile \in ConfigFiles
    /\ configs = <<>>
    /\ cfgLast = NoConfigCall
    /\ MoverIdle
    /\ RunIdle
    /\ ConsoleIdle

\* Config(): the constructor loads the file; when get_configs raises there is no object
Load ==
    /\ cfgLast.op = "none"
    /\ LET r == GetConfigs(cfgFile)
       IN  /\ configs' = r.configs
           /\ cfgLast' = [NoConfigCall EXCEPT !.op = "load", !.err = r.err, !.pre = cfgFile]
    /\ UNCHANGED <<cfgFile, moverVars, runVars, consoleVars>>

\* set_configs on a constructed Config
Update(ext, paths, dup, level) ==
    /\ configs # <<>>
    /\ LET r == SetConfigs(cfgFile, configs, ext, paths, dup, level)
       IN  /\ configs' = r.configs
           /\ cfgFile' = r.file
           /\ cfgLast' = [op |-> "update", err |-> r.err, pre |-> cfgFile,
                          ext |-> ext, paths |-> paths, dup |-> dup, level |-> level]
    /\ UNCHANGED <<moverVars, runVars, consoleVars>>

ConfigNext ==
    \/ Load
    \/ \E ext \in {None, Given(<<E_nodot, E_p_M, E_nofolder, E_blank, E_p_N, E_q_M>>)},
          paths \in {None} \cup {Given(Folders(n)) : n \in ListLengths},
          dup \in {None, Given("true"), Given("false"), BadType},
          level \in {None, Given("failed"), Given("verbose")} :
          Update(ext, paths, dup, level)

SpecConfig == ConfigInit /\ [][ConfigNext]_vars

-----------------------------------------------------------------------------
(* ConsoleManager, the Status Reporter *)

\* a flag argument that is a string
Flag(v) == [none |-> FALSE, val |-> v]

\* ConsoleManager.flags: the coloured dot of each flag
flags == <<<<Flag("success"), "GREEN(*)">>, <<Flag("failed"), "RED(*)">>, <<NoFlag, "">>>>

\* the line print makes of a message
FormattedMsg(flag, msg) == <<DictGet(flags, flag), " ", msg, "\n">>

\* the truth value of a flag: None and "" are false
Truthy(flag) == ~flag.none /\ flag.val # ""

ConsoleResult(e, m, st, sc) == [err |-> e, messages |-> m, stream |-> st, screen |-> sc]

\* print that remembers only what it writes
ConsolePrintForgetsSuppressed(m, st, sc, level, msg, flag) ==
    IF ~DictHas(flags, flag) THEN ConsoleResult("ValueError", m, st, sc)
    ELSE LET formatted_msg == FormattedMsg(flag, msg)
         IN  IF Truthy(flag) /\ level # "all" /\ level # flag.val
             THEN ConsoleResult("ok", m, st, sc)
             ELSE ConsoleResult("ok", Append(m, <<formatted_msg, flag>>),
                                Append(st, formatted_msg), Append(sc, formatted_msg))

\* ConsoleManager.print
ConsolePrint(m, st, sc, level, msg, flag) ==
    IF ~DictHas(flags, flag) THEN ConsoleResult("ValueError", m, st, sc)
    ELSE LET formatted_msg == FormattedMsg(flag, msg)
             appended == Append(m, <<formatted_msg, flag>>)
         IN  IF Truthy(flag) /\ level # "all" /\ level # flag.val
             THEN ConsoleResult("ok", appended, st, sc)
             ELSE ConsoleResult("ok", appended,
                                Append(st, formatted_msg), Append(sc, formatted_msg))

\* the list comprehension of filter_by_flag, from the i-th message on
RECURSIVE FilteredMessages(_, _, _)
FilteredMessages(m, flag, i) ==
    IF i > Len(m) THEN <<>>
    ELSE IF flag = Flag("all") \/ flag = m[i][2]
    THEN <<m[i][1]>> \o FilteredMessages(m, flag, i + 1)
    ELSE FilteredMessages(m, flag, i + 1)

\* the placeholder line
NothingToShow(flag) == <<"-- There isn't any ", flag.val, " message to show. --\n">>

\* filter_by_flag whose "all" leaves out the messages printed without a flag
FilterByFlagSkipsUnflagged(m, st, sc, flag) ==
    IF flag \notin {Flag("all"), Flag("success"), Flag("failed")}
    THEN ConsoleResult("ValueError", m, st, sc)
    ELSE LET filtered_messages ==
                 IF flag = Flag("all")
                 THEN FilteredMessages(m, Flag("success"), 1)
                          \o FilteredMessages(m, Flag("failed"), 1)
                 ELSE FilteredMessages(m, flag, 1)
         IN  IF filtered_messages = <<>>
             THEN ConsoleResult("ok", m, Append(st, NothingToShow(flag)),
                                <<NothingToShow(flag)>>)
             ELSE ConsoleResult("ok", m, st \o filtered_messages, filtered_messages)

\* ConsoleManager.filter_by_flag: the terminal is cleared, then the matching
\* messages are written, or the placeholder
FilterByFlag(m, st, sc, flag) ==
    IF flag \notin {Flag("all"), Flag("success"), Flag("failed")}
    THEN ConsoleResult("ValueError", m, st, sc)
    ELSE LET filtered_messages == FilteredMessages(m, flag, 1)
         IN  IF filtered_messages = <<>>
             THEN ConsoleResult("ok", m, Append(st, NothingToShow(flag)),
                                <<NothingToShow(flag)>>)
             ELSE ConsoleResult("ok", m, st \o filtered_messages, filtered_messages)

\* ConsoleManager(output_level): nothing remembered, nothing written
ConsoleInit ==
    /\ messages = <<>> /\ stream = <<>> /\ screen = <<>>
    /\ output_level \in {"failed", "all", "success"}
    /\ conLast = NoConsoleCall
    /\ MoverIdle
    /\ ConfigIdle
    /\ RunIdle

DoPrint(msg, flag) ==
    /\ Len(messages) < MaxMessages
    /\ Len(stream) < MaxStream
    /\ LET r == ConsolePrint(messages, stream, screen, output_level, msg, flag)
       IN  /\ messages' = r.messages
           /\ stream' = r.stream
           /\ screen' = r.screen
           /\ conLast' = [op |-> "print", msg |-> msg, flag |-> flag, err |-> r.err,
                          messages |-> messages, stream |-> stream, screen |-> screen]
    /\ UNCHANGED <<output_level, moverVars, configVars, runVars>>

DoFilterByFlag(flag) ==
    /\ Len(stream) < MaxStream
    /\ LET r == FilterByFlag(messages, stream, screen, flag)
       IN  /\ messages' = r.messages
           /\ stream' = r.stream
           /\ screen' = r.screen
           /\ conLast' = [op |-> "filter_by_flag", msg |-> "", flag |-> flag, err |-> r.err,
                          messages |-> messages, stream |-> stream, screen |-> screen]
    /\ UNCHANGED <<output_level, moverVars, configVars, runVars>>

ConsoleNext ==
    \/ \E msg \in {"m", "n"},
          flag \in {NoFlag, Flag("success"), Flag("failed"), Flag("all")} :
          DoPrint(msg, flag)
    \/ \E flag \in {Flag("all"), Flag("success"), Flag("failed"), Flag("verbose"), NoFlag} :
          DoFilterByFlag(flag)

SpecConsole == ConsoleInit /\ [][ConsoleNext]_vars

-----------------------------------------------------------------------------
(* What the File Mover's claims expect, spelled out name by name *)

\* the path a file argument names under the root /x
ExpectedSource(file) ==
    CASE file = <<"a", ".", "t">> -> <<<<"x">>, <<"a", ".", "t">>>>
      [] file = <<".", "h">> -> <<<<"x">>, <<".", "h">>>>
      [] file = <<"D">> -> <<<<"x">>, <<"D">>>>

\* the directory a folder argument names under the root /x
ExpectedTarget(folder_name) ==
    CASE folder_name = <<"D">> -> <<<<"x">>, <<"D">>>>
      [] folder_name = <<"D", "/", "s">> -> <<<<"x">>, <<"D">>, <<"s">>>>

ExpectedDigit == <<"1", "2", "3", "4", "5", "6", "7", "8", "9">>

\* '<stem> (N)<ext>' of a file name
ExpectedNumbered(file, N) ==
    CASE file = <<"a", ".", "t">> -> <<"a", " ", "(", ExpectedDigit[N], ")", ".", "t">>
      [] file = <<".", "h">> -> <<".", "h", " ", "(", ExpectedDigit[N], ")">>
      [] file = <<"D">> -> <<"D", " ", "(", ExpectedDigit[N], ")">>

\* the last call was move_file / create_folder with arguments of the right types
MoveCalled == last.op = "move_file" /\ last.file # NotStr /\ last.folder # NotStr
CreateCalled == last.op = "create_folder" /\ last.folder # NotStr

\* the last call was a move_file that got past its checks: a regular file, an
\* existing target directory
MoveAttempted ==
    /\ MoveCalled
    /\ IsFile(last.pre, ExpectedSource(last.file))
    /\ IsDir(last.pre, ExpectedTarget(last.folder))

\* the file system is as before the last call, except that the file at src is now at dst
MovedTo(src, dst) ==
    /\ DOMAIN fs = (DOMAIN last.pre \ {src}) \cup {dst}
    /\ fs[dst] = last.pre[src]
    /\ \A p \in DOMAIN last.pre \ {src, dst} : fs[p] = last.pre[p]

\* C3: move_file with keep_dup, into a target folder that holds an entry with the
\* file's name, stores the file as "<stem> (N)<ext>" for the smallest N >= 1 whose
\* name is free there, and leaves every entry that was there in place.
C3_KeepDupNumbersFromOne ==
    (MoveAttempted /\ last.keep /\ last.err = "ok"
       /\ Exists(last.pre, ExpectedTarget(last.folder) \o <<last.file>>))
    => LET src == ExpectedSource(last.file)
           dir == ExpectedTarget(last.folder)
       IN  \E N \in 1 .. 9 :
              /\ \A k \in 1 .. (N - 1) :
                    Exists(last.pre, dir \o <<ExpectedNumbered(last.file, k)>>)
              /\ ~Exists(last.pre, dir \o <<ExpectedNumbered(last.file, N)>>)
              /\ MovedTo(src, dir \o <<ExpectedNumbered(last.file, N)>>)
              /\ \A p \in DOMAIN last.pre \ {src} : fs[p] = last.pre[p]

\* C3's case: the file went in as "a (2).t", beside "a.t" and "a (1).t"
C3_Witness ==
    /\ MoveAttempted /\ last.keep /\ last.err = "ok"
    /\ last.file = <<"a", ".", "t">> /\ last.folder = <<"D">>
    /\ Exists(last.pre, <<<<"x">>, <<"D">>, <<"a", ".", "t">>>>)
    /\ Exists(last.pre, <<<<"x">>, <<"D">>, <<"a", " ", "(", "1", ")", ".", "t">>>>)
    /\ IsFile(fs, <<<<"x">>, <<"D">>, <<"a", " ", "(", "2", ")", ".", "t">>>>)
    /\ fs[<<<<"x">>, <<"D">>, <<"a", " ", "(", "2", ")", ".", "t">>>>].content = 1

\* C4 as stated: move_file without keep_dup, into a target folder that holds any
\* entry with the file's name, overwrites it (unless permission is denied).
C4_OverwritesAnyEntry ==
    (MoveAttempted /\ ~last.keep /\ last.err # "PermissionError"
       /\ Exists(last.pre, ExpectedTarget(last.folder) \o <<last.file>>))
    => /\ last.err = "ok"
       /\ MovedTo(ExpectedSource(last.file), ExpectedTarget(last.folder) \o <<last.file>>)
       /\ DOMAIN fs = DOMAIN last.pre \ {ExpectedSource(last.file)}

\* C4, amended: move_file without keep_dup, into a target folder that holds an entry
\* with the file's name that is not a directory, overwrites it (unless permission is
\* denied): the destination holds the moved file's content, the source is gone and
\* the target folder gets no new name. When the entry is a directory the call fails
\* with IsADirectoryError and changes nothing.
C4_OverwritesNonDirectory ==
    (MoveAttempted /\ ~last.keep /\ last.err # "PermissionError"
       /\ Exists(last.pre, ExpectedTarget(last.folder) \o <<last.file>>))
    => LET src == ExpectedSource(last.file)
           dst == ExpectedTarget(last.folder) \o <<last.file>>
       IN  IF last.pre[dst].kind = "dir"
           THEN last.err = "IsADirectoryError" /\ fs = last.pre
           ELSE /\ last.err = "ok"
                /\ MovedTo(src, dst)
                /\ fs[dst].kind = "file"
                /\ ~Exists(fs, src)
                /\ DOMAIN fs = DOMAIN last.pre \ {src}

\* C4's case: x/a.t replaced the regular file x/D/a.t
C4_Witness ==
    /\ MoveAttempted /\ ~last.keep /\ last.err = "ok"
    /\ last.file = <<"a", ".", "t">> /\ last.folder = <<"D">>
    /\ IsFile(last.pre, <<<<"x">>, <<"D">>, <<"a", ".", "t">>>>)
    /\ last.pre[<<<<"x">>, <<"D">>, <<"a", ".", "t">>>>].content = 6
    /\ fs[<<<<"x">>, <<"D">>, <<"a", ".", "t">>>>].content = 1

\* C5: move_file fails with FileNotFoundError when the file is not a regular file
\* under the root and (the file being one) with NotADirectoryError when the target is
\* not an existing directory; either way the file system is left as it was.
C5_MoveRejectsBadArguments ==
    MoveCalled
    => /\ ~IsFile(last.pre, ExpectedSource(last.file))
            => (last.err = "FileNotFoundError" /\ fs = last.pre)
       /\ (IsFile(last.pre, ExpectedSource(last.file))
             /\ ~IsDir(last.pre, ExpectedTarget(last.folder)))
            => (last.err = "NotADirectoryError" /\ fs = last.pre)

\* C5's case: a regular file, and a target that is a regular file, not a directory
C5_Witness ==
    /\ MoveCalled /\ last.err = "NotADirectoryError"
    /\ last.file = <<"a", ".", "t">> /\ last.folder = <<"D">>
    /\ IsFile(last.pre, <<<<"x">>, <<"a", ".", "t">>>>)
    /\ IsFile(last.pre, <<<<"x">>, <<"D">>>>)
    /\ fs = last.pre

\* the directories create_folder has to find or make: the target and the folders
\* between the root and it
ExpectedChain(folder_name) ==
    {SubSeq(ExpectedTarget(folder_name), 1, k) :
        k \in 2 .. Len(ExpectedTarget(folder_name))}

\* what one create_folder call does
C6_CreateFolderOutcome ==
    CreateCalled
    => LET t == ExpectedTarget(last.folder)
           chain == ExpectedChain(last.folder)
           missing == {p \in chain : ~Exists(last.pre, p)}
           first == CHOOSE m \in missing : \A q \in missing : Len(m) <= Len(q)
           above == SubSeq(first, 1, Len(first) - 1)
       IN  /\ IsDir(last.pre, t) => (last.err = "ok" /\ fs = last.pre)
           /\ (Exists(last.pre, t) /\ ~IsDir(last.pre, t))
                => (last.err = "FileExistsError" /\ fs = last.pre)
           /\ (~Exists(last.pre, t)
                 /\ (\A p \in chain \ missing : IsDir(last.pre, p))
                 /\ above \notin ro)
                => /\ last.err = "ok"
                   /\ DOMAIN fs = DOMAIN last.pre \cup chain
                   /\ \A p \in missing : fs[p].kind = "dir"
                   /\ \A p \in DOMAIN last.pre : fs[p] = last.pre[p]
           /\ last.err = "ok" => (t \in DOMAIN fs /\ fs[t].kind = "dir")
           /\ last.err # "ok" => fs = last.pre

\* a create_folder call right after a successful one with the same name
C6_SecondCall ==
    (last.op = "create_folder" /\ last.err = "ok"
       /\ last'.op = "create_folder" /\ last'.folder = last.folder)
    => (last'.err = "ok" /\ fs' = fs)

\* no call of the File Mover makes a directory cease to be one
C6_CallsKeepDirectories ==
    last'.op \in {"create_folder", "move_file", "get_files"}
    => \A p \in DOMAIN fs :
          fs[p].kind = "dir" => (p \in DOMAIN fs' /\ fs'[p].kind = "dir")

\* C6: create_folder is idempotent. It creates root/name with its missing parents
\* if absent, succeeds and changes nothing if root/name is a directory, and fails
\* with FileExistsError, creating nothing, if root/name is an entry that is not a
\* directory; a call after a successful one succeeds again, and since no call of the
\* File Mover removes a directory, it can fail only after something else replaced it.
C6_CreateFolderIdempotent ==
    /\ []C6_CreateFolderOutcome
    /\ [][C6_SecondCall]_vars
    /\ [][C6_CallsKeepDirectories]_vars

\* C6's case: create_folder("D/s") succeeded on a file system in which x/D/s was there
\* already, which only an earlier create_folder("D/s") can have made
C6_Witness ==
    /\ CreateCalled /\ last.err = "ok"
    /\ last.folder = <<"D", "/", "s">>
    /\ IsDir(last.pre, <<<<"x">>, <<"D">>, <<"s">>>>)
    /\ fs = last.pre

\* C7: get_files yields exactly the regular files directly under the root whose
\* names do not start with ".": no directory, no dotfile, nothing from a subfolder,
\* and what it yields is what the folder holds at the time of the call.
C7_GetFilesExact ==
    last.op = "get_files"
    => /\ \A n \in last.files :
             /\ <<<<"x">>, n>> \in DOMAIN fs
             /\ fs[<<<<"x">>, n>>].kind = "file"
             /\ n[1] # "."
       /\ \A p \in DOMAIN fs :
             (Len(p) = 2 /\ p[1] = <<"x">> /\ fs[p].kind = "file" /\ p[2][1] # ".")
               => p[2] \in last.files

\* C7's case: a listing made after x/a.t was moved into x/D, beside a dotfile and a
\* folder: it yields nothing
C7_Witness ==
    /\ last.op = "get_files" /\ last.files = {}
    /\ <<<<"x">>, <<"a", ".", "t">>>> \notin DOMAIN fs
    /\ <<<<"x">>, <<"D">>, <<"a", ".", "t">>>> \in DOMAIN fs
    /\ fs[<<<<"x">>, <<"D">>, <<"a", ".", "t">>>>].content = 1
    /\ <<<<"x">>, <<".", "h">>>> \in DOMAIN fs

-----------------------------------------------------------------------------
(* What the Orchestrator's claims expect *)

\* the failures of create_folder and move_file that are handled file by file
PerFileFailures ==
    {"TypeError", "FileExistsError", "FileNotFoundError", "NotADirectoryError",
     "PermissionError"}

\* a step of organize in which the loop body ran for a file
BodyRan == pc = "files" /\ (reported' # reported \/ pc' = "raised")

\* C1, step by step: when create_folder or move_file fails for a file with one of
\* the handled failures, the file stays where it is, one "failed" status is reported
\* for it, and organize stays in the loop with the other listed files still to come
C1_FailureStep ==
    (BodyRan /\ last'.err \in PerFileFailures)
    => LET src == folder_path \o <<last'.file>>
       IN  /\ src \in DOMAIN fs' /\ fs'[src] = fs[src]
           /\ \A p \in DOMAIN fs' :
                 (fs'[p].kind = "file" /\ fs'[p].content = fs[src].content) => p = src
           /\ Len(reported') = Len(reported) + 1
           /\ SubSeq(reported', 1, Len(reported)) = reported
           /\ reported'[Len(reported')].status = "failed"
           /\ reported'[Len(reported')].msg.file = last'.file
           /\ reported'[Len(reported')].msg.idx = idx
           /\ pc' = "files" /\ raised' = "none" /\ idx' = idx
           /\ folder_path' = folder_path
           /\ todo' = todo \ {last'.file}

\* organize is left by an exception only when a folder of folder_paths is no
\* directory (before its start banner) or when a rename hits a directory
C1_AbortsOnlyOtherwise ==
    pc = "raised"
    => \/ raised = "IsADirectoryError" /\ last.err = "IsADirectoryError"
       \/ /\ raised = "NotADirectoryError"
          /\ \A i \in 1 .. Len(out) : ~(out[i].kind = "start" /\ out[i].idx = idx)

\* C1: a type, existence, permission or directory failure of create_folder or
\* move_file for a file leaves that file unmoved, is reported as exactly one "failed"
\* status, and does not end the run: organize goes on with the next file and the
\* remaining folders.
C1_PerFileFailureIsReportedAndSurvived ==
    /\ [][C1_FailureStep]_vars
    /\ []C1_AbortsOnlyOtherwise

\* C1's case: a file of the first folder failed, a later file of that folder was
\* handled, the second folder's files were handled, and organize returned
C1_Witness ==
    /\ pc = "done"
    /\ \E i, j, k \in 1 .. Len(reported) :
          /\ i < j /\ j < k
          /\ reported[i].status = "failed" /\ reported[i].msg.idx = 1
          /\ reported[j].msg.idx = 1
          /\ reported[k].msg.idx = 2
          /\ <<<<"x">>, reported[i].msg.file>> \in DOMAIN fs

\* the root a folder_paths entry names
ExpectedRoot(folder) ==
    CASE folder = <<"/", "x">> -> <<<<"x">>>>
      [] folder = <<"/", "x", "/", "D">> -> <<<<"x">>, <<"D">>>>

\* the target folders of the model, as paths under a root
ExpectedFolder(folder_name) ==
    CASE folder_name = <<"D">> -> <<<<"D">>>>
      [] folder_name = <<"D", "/", "s">> -> <<<<"D">>, <<"s">>>>
      [] folder_name = <<"O", "T", "H", "E", "R", "S">>
           -> <<<<"O", "T", "H", "E", "R", "S">>>>

\* the extension of the model's file names
ExpectedExt(name) ==
    IF name \in {<<"a", ".", "t">>}
                  \cup {<<"a", " ", "(", ExpectedDigit[k], ")", ".", "t">> : k \in 1 .. 9}
    THEN <<".", "t">>
    ELSE IF name = <<"b", ".", "p">> THEN <<".", "p">>
    ELSE <<>>

\* the folder the configuration sends a file name to
ExpectedFolderOf(name) ==
    LET e2f == configs[1][2]
    IN  IF \E i \in 1 .. Len(e2f) : e2f[i][1] = ExpectedExt(name)
        THEN ExpectedFolder(e2f[CHOOSE i \in 1 .. Len(e2f) : e2f[i][1] = ExpectedExt(name)][2])
        ELSE <<<<"O", "T", "H", "E", "R", "S">>>>

\* the folder just completed, when organize stands between two folders or at its end
Completed == pc \in {"folder", "done"} /\ idx > 1

CompletedRoot == ExpectedRoot(configs[2][2][idx - 1])

\* the non-hidden regular files that were directly under the completed folder
CompletedFiles ==
    {p \in DOMAIN fs0 :
        /\ Len(p) = Len(CompletedRoot) + 1
        /\ SubSeq(p, 1, Len(CompletedRoot)) = CompletedRoot
        /\ fs0[p].kind = "file"
        /\ p[Len(p)][1] # "."}

\* no create_folder or move_file failed in the completed folder
CompletedWithoutFailure ==
    /\ Completed
    /\ \A i \in 1 .. Len(reported) :
          reported[i].msg.idx = idx - 1 => reported[i].status = "success"

\* the file that was at p is now directly in dir
EndedUpIn(p, dir) ==
    \E q \in DOMAIN fs :
       /\ Len(q) = Len(dir) + 1
       /\ SubSeq(q, 1, Len(dir)) = dir
       /\ fs[q] = fs0[p]

\* the "success" statuses for a file of the completed folder: given to
\* display_status, and shown on the console
SuccessesReported(name) ==
    Cardinality({i \in 1 .. Len(reported) :
        /\ reported[i].status = "success"
        /\ reported[i].msg.idx = idx - 1 /\ reported[i].msg.file = name})

SuccessesShown(name) ==
    Cardinality({i \in 1 .. Len(out) :
        /\ out[i].kind = "status" /\ out[i].status = "success"
        /\ out[i].msg.idx = idx - 1 /\ out[i].msg.file = name})

-----------------------------------------------------------------------------
(* What the Configuration Store's claims expect *)

RequiredKeys == {"extension_to_folder", "folder_paths", "keep_duplicates", "status_level"}

KeysOf(m) == {m[i][1] : i \in 1 .. Len(m)}

\* the value a JSON object's text gives a key: that of its last member of that name
ValueOf(m, k) ==
    m[CHOOSE i \in 1 .. Len(m) :
          m[i][1] = k /\ \A j \in (i + 1) .. Len(m) : m[j][1] # k][2]

\* the document a sequence of members denotes
DocOf(m) == [k \in KeysOf(m) |-> ValueOf(m, k)]

PlainUpdate ==
    /\ cfgLast.op = "update"
    /\ ~cfgLast.ext.given /\ ~cfgLast.paths.given
    /\ ~cfgLast.dup.given /\ ~cfgLast.level.given

\* C8: on a loaded Config, set_configs with no argument given succeeds and leaves
\* the file's document and the configuration in memory both equal to the document
\* the file held before the call
C8_PlainUpdateKeepsDocument ==
    PlainUpdate =>
        /\ cfgLast.err = "ok"
        /\ cfgFile.exists
        /\ DocOf(cfgFile.members) = DocOf(cfgLast.pre.members)
        /\ DocOf(configs) = DocOf(cfgLast.pre.members)

\* C8's case: a plain update of a document whose keep_duplicates is true and whose
\* folder list has 20 entries
C8_Witness ==
    /\ PlainUpdate
    /\ cfgLast.err = "ok"
    /\ ValueOf(cfgLast.pre.members, "keep_duplicates") = TRUE
    /\ Len(ValueOf(cfgLast.pre.members, "folder_paths")) = 20
    /\ DocOf(configs) = DocOf(cfgLast.pre.members)

\* C9: once a Config is loaded, whatever updates follow, folder_paths has between
\* 1 and 20 entries, in memory and in the file
C9_FolderPathsBounded ==
    configs # <<>> =>
        /\ cfgFile.exists
        /\ "folder_paths" \in KeysOf(configs) \cap KeysOf(cfgFile.members)
        /\ Len(ValueOf(configs, "folder_paths")) \in 1 .. 20
        /\ Len(ValueOf(cfgFile.members, "folder_paths")) \in 1 .. 20

\* C9's case: an update given 21 folders has run, and one given none
C9_Witness ==
    /\ cfgLast.op = "update" /\ cfgLast.err = "ok"
    /\ cfgLast.paths.given /\ Len(cfgLast.paths.val) = 21
    /\ Len(ValueOf(configs, "folder_paths")) \in 1 .. 20
    /\ Len(ValueOf(cfgFile.members, "folder_paths")) \in 1 .. 20

\* C10: loading a missing file fails with FileNotFoundError; a file lacking a
\* required key or whose folder_paths is empty or longer than 20 fails with a
\* KeyError or a ValueError (KeyError when only keys are missing, ValueError when
\* only the size is wrong); any other file is returned as the document stored;
\* the file is never changed
C10_LoadOutcome ==
    cfgLast.op = "load" =>
        LET f == cfgLast.pre
            missing == \E k \in RequiredKeys : k \notin KeysOf(f.members)
            badsize == /\ "folder_paths" \in KeysOf(f.members)
                       /\ \/ Len(ValueOf(f.members, "folder_paths")) = 0
                          \/ Len(ValueOf(f.members, "folder_paths")) > 20
        IN  /\ cfgFile = f
            /\ IF ~f.exists
               THEN cfgLast.err = "FileNotFoundError" /\ configs = <<>>
               ELSE IF missing \/ badsize
               THEN /\ cfgLast.err \in {"KeyError", "ValueError"}
                    /\ (~badsize => cfgLast.err = "KeyError")
                    /\ (~missing => cfgLast.err = "ValueError")
                    /\ configs = <<>>
               ELSE /\ cfgLast.err = "ok"
                    /\ DocOf(configs) = DocOf(f.members)

\* C10's case: a file with the four keys and exactly 20 folders has been loaded
C10_Witness ==
    /\ cfgLast.op = "load" /\ cfgLast.err = "ok"
    /\ RequiredKeys \subseteq KeysOf(cfgLast.pre.members)
    /\ Len(ValueOf(cfgLast.pre.members, "folder_paths")) = 20
    /\ Len(ValueOf(configs, "folder_paths")) = 20

-----------------------------------------------------------------------------
(* What the Status Reporter's claims expect *)

\* the rendered line of a message printed with a category
ExpectedLine(flag, msg) ==
    <<(IF flag = NoFlag THEN ""
       ELSE IF flag.val = "success" THEN "GREEN(*)" ELSE "RED(*)"), " ", msg, "\n">>

\* what the last call wrote to the stream
Written == SubSeq(stream, Len(conLast.stream) + 1, Len(stream))

\* C11: print with category success, failed or none appends (rendered message,
\* category) to the history whatever the verbosity, and writes the rendered message
\* exactly when the verbosity is "all" or the category, or the category is none;
\* any other category raises ValueError and changes neither history nor output
C11_PrintRecordsAndFilters ==
    conLast.op = "print" =>
        IF conLast.flag \in {NoFlag, Flag("success"), Flag("failed")}
        THEN LET line == ExpectedLine(conLast.flag, conLast.msg)
                 emitted == \/ output_level = "all"
                            \/ conLast.flag = NoFlag
                            \/ conLast.flag = Flag(output_level)
             IN  /\ conLast.err = "ok"
                 /\ messages = Append(conLast.messages, <<line, conLast.flag>>)
                 /\ stream = (IF emitted THEN Append(conLast.stream, line)
                              ELSE conLast.stream)
        ELSE /\ conLast.err = "ValueError"
             /\ messages = conLast.messages
             /\ stream = conLast.stream
             /\ screen = conLast.screen

\* C11's case: a success message printed under verbosity "failed" is remembered
\* and not written
C11_Witness ==
    /\ conLast.op = "print" /\ conLast.err = "ok"
    /\ conLast.flag = Flag("success") /\ output_level = "failed"
    /\ Len(messages) = Len(conLast.messages) + 1
    /\ stream = conLast.stream

\* the lines of the history whose category is the one asked for
ExpectedLines(m, flag) ==
    LET Matches(e) == flag = Flag("all") \/ e[2] = flag
        kept == SelectSeq(m, Matches)
    IN  [i \in 1 .. Len(kept) |-> kept[i][1]]

\* C14: filter_by_flag with all, success or failed writes exactly the history's
\* messages of that category (all of them for "all"), in the order printed, or one
\* placeholder line when there is none, and leaves the history as it was; any other
\* category raises ValueError with nothing written and nothing cleared
C14_FilterShowsMatching ==
    conLast.op = "filter_by_flag" =>
        IF conLast.flag \in {Flag("all"), Flag("success"), Flag("failed")}
        THEN LET lines == ExpectedLines(conLast.messages, conLast.flag)
             IN  /\ conLast.err = "ok"
                 /\ messages = conLast.messages
                 /\ Len(stream) >= Len(conLast.stream)
                 /\ SubSeq(stream, 1, Len(conLast.stream)) = conLast.stream
                 /\ IF lines = <<>>
                    THEN Len(Written) = 1 /\ Written[1] \notin {e[1] : e \in {messages[i] : i \in 1 .. Len(messages)}}
                    ELSE Written = lines
                 /\ screen = Written
        ELSE /\ conLast.err = "ValueError"
             /\ messages = conLast.messages
             /\ stream = conLast.stream
             /\ screen = conLast.screen

\* C14's case: "all" asked of a history holding an uncategorised message followed
\* by a categorised one
C14_Witness ==
    /\ conLast.op = "filter_by_flag" /\ conLast.err = "ok"
    /\ conLast.flag = Flag("all")
    /\ Len(conLast.messages) = 2
    /\ conLast.messages[1][2] = NoFlag
    /\ conLast.messages[2][2] = Flag("failed")
    /\ Len(Written) = 2

-----------------------------------------------------------------------------
(* What the claims about set_configs' overrides expect *)

\* a set_configs call whose arguments all have the declared types
TypedUpdate ==
    /\ cfgLast.op = "update"
    /\ cfgLast.ext.typeok /\ cfgLast.paths.typeok
    /\ cfgLast.dup.typeok /\ cfgLast.level.typeok

\* the value the file held for a key before the call
Before(k) == ValueOf(cfgLast.pre.members, k)

\* C12: set_configs takes each override on its own: folder_paths becomes the list
\* given only when that has 1 to 19 entries, status_level the value given only when
\* it is all, success or failed, and each is left as it was otherwise; whatever the
\* other overrides are, keep_duplicates is still set, no error is raised, and the
\* file is rewritten with the configuration now in memory
C12_InvalidOverridesIgnored ==
    TypedUpdate =>
        /\ cfgLast.err = "ok"
        /\ cfgFile.exists
        /\ DocOf(cfgFile.members) = DocOf(configs)
        /\ ValueOf(configs, "folder_paths") =
               (IF cfgLast.paths.given /\ Len(cfgLast.paths.val) \in 1 .. 19
                THEN cfgLast.paths.val ELSE Before("folder_paths"))
        /\ ValueOf(configs, "status_level") =
               (IF cfgLast.level.given /\ cfgLast.level.val \in {"all", "success", "failed"}
                THEN cfgLast.level.val ELSE Before("status_level"))
        /\ ValueOf(configs, "keep_duplicates") =
               (IF cfgLast.dup.given THEN cfgLast.dup.val = "true"
                ELSE Before("keep_duplicates"))
        /\ (~cfgLast.ext.given =>
               ValueOf(configs, "extension_to_folder") = Before("extension_to_folder"))

\* C12's case: 20 folders and an unknown status level are given together with
\* keep_duplicates = "true" on a document that had it false: both are ignored,
\* keep_duplicates is set and written
C12_Witness ==
    /\ TypedUpdate /\ cfgLast.err = "ok"
    /\ cfgLast.paths.given /\ Len(cfgLast.paths.val) = 20
    /\ cfgLast.level.given /\ cfgLast.level.val = "verbose"
    /\ cfgLast.dup.given /\ cfgLast.dup.val = "true"
    /\ Before("keep_duplicates") = FALSE
    /\ Len(Before("folder_paths")) = 1
    /\ ValueOf(cfgFile.members, "keep_duplicates") = TRUE
    /\ Len(ValueOf(cfgFile.members, "folder_paths")) = 1

\* what each entry tried asks for: an extension and its folder, or nothing when
\* it is malformed
ExpectedEntry(e) ==
    IF e = E_p_M THEN [ok |-> TRUE, ext |-> <<".", "p">>, folder |-> <<"M">>]
    ELSE IF e = E_p_N THEN [ok |-> TRUE, ext |-> <<".", "p">>, folder |-> <<"N">>]
    ELSE IF e = E_q_M THEN [ok |-> TRUE, ext |-> <<".", "q">>, folder |-> <<"M">>]
    ELSE [ok |-> FALSE, ext |-> <<>>, folder |-> <<>>]

\* the positions of the well-formed entries that name an extension
Naming(entries, k) ==
    {i \in 1 .. Len(entries) : ExpectedEntry(entries[i]).ok /\ ExpectedEntry(entries[i]).ext = k}

\* the extension map a set_configs call given entries must leave, as a function
ExpectedMap(previous, entries) ==
    [k \in KeysOf(previous) \cup
           {ExpectedEntry(entries[i]).ext : i \in {j \in 1 .. Len(entries) :
                                                    ExpectedEntry(entries[j]).ok}} |->
        IF Naming(entries, k) # {}
        THEN ExpectedEntry(entries[CHOOSE i \in Naming(entries, k) :
                                       \A j \in Naming(entries, k) : j <= i]).folder
        ELSE ValueOf(previous, k)]

\* C13: set_configs given extension entries merges them into the file's map: each
\* well-formed entry's extension maps to its folder, the last entry deciding when
\* an extension is named more than once; extensions no entry names keep their
\* folder; malformed entries add and change nothing. The result is in memory and
\* in the file
C13_ExtensionsMerged ==
    (TypedUpdate /\ cfgLast.ext.given) =>
        LET expected == ExpectedMap(Before("extension_to_folder"), cfgLast.ext.val)
        IN  /\ cfgLast.err = "ok"
            /\ DocOf(ValueOf(configs, "extension_to_folder")) = expected
            /\ DocOf(ValueOf(cfgFile.members, "extension_to_folder")) = expected

\* C13's case: entries naming .p twice and .q once, among malformed ones, merged
\* into a map of .t and .p
C13_Witness ==
    /\ TypedUpdate /\ cfgLast.ext.given /\ cfgLast.err = "ok"
    /\ Before("extension_to_folder") = <<<<Ext_t, S_D>>, <<Ext_p, S_D>>>>
    /\ Len(cfgLast.ext.val) = 6
    /\ ValueOf(cfgFile.members, "extension_to_folder") =
           <<<<Ext_t, S_D>>, <<Ext_p, <<"N">>>>, <<<<".", "q">>, <<"M">>>>>>

-----------------------------------------------------------------------------
(* What the claim about the order of the folders expects *)

\* the start and completion banners printed so far, in order
Banners ==
    LET IsBanner(e) == e.kind \in {"start", "end"}
    IN  SelectSeq(out, IsBanner)

FolderCount == Len(ValueOf(configs, "folder_paths"))

\* the banners come as start 1, end 1, start 2, end 2, ...; a file is handled only
\* under a folder whose start banner is out; when organize is done every folder
\* has both banners
C15_BannersInOrder ==
    /\ \A j \in 1 .. Len(Banners) :
           Banners[j] = [kind |-> IF j % 2 = 1 THEN "start" ELSE "end",
                         idx |-> (j + 1) \div 2]
    /\ Len(Banners) <= 2 * FolderCount
    /\ \A i \in 1 .. Len(reported) : 2 * reported[i].msg.idx - 1 <= Len(Banners)
    /\ (pc = "done" => Len(Banners) = 2 * FolderCount)

\* a file is handled between its folder's two banners
C15_HandledInsideFolder ==
    reported' # reported =>
        /\ Len(Banners) % 2 = 1
        /\ Len(reported') = Len(reported) + 1
        /\ 2 * reported'[Len(reported')].msg.idx - 1 = Len(Banners)

\* the completion banner comes when every non-hidden regular file the folder held
\* at its start banner has been handled
C15_EndAfterAllFiles ==
    (Len(Banners') = Len(Banners) + 1 /\ Len(Banners') % 2 = 0) =>
        \A n \in ListDir(fs0, folder_path) :
            (fs0[folder_path \o <<n>>].kind = "file" /\ n[1] # ".") =>
                \E i \in 1 .. Len(reported) :
                    /\ reported[i].msg.idx = Len(Banners') \div 2
                    /\ reported[i].msg.file = n

C15_Order ==
    /\ []C15_BannersInOrder
    /\ [][C15_HandledInsideFolder]_vars
    /\ [][C15_EndAfterAllFiles]_vars

\* C15 as stated: the folders are taken in list order, each between its start and
\* completion banner, and every run reaches the overall completion with every
\* configured folder processed
C15_InOrderAndAllProcessed == C15_Order /\ <>(pc = "done")

\* C15: the folders are taken in list order, each between its start and completion
\* banner, and the overall completion comes after the last one; every run either
\* reaches it or is ended by an exception organize does not catch: the folder
\* setter's NotADirectoryError or the rename's IsADirectoryError
C15_InOrderUntilDoneOrRaised ==
    /\ C15_Order
    /\ <>(pc = "done" \/ pc = "raised")
    /\ [](pc = "raised" => raised \in {"NotADirectoryError", "IsADirectoryError"})
    /\ [](pc = "done" => raised = "none")

\* C15's case: a run over two folders is done, with four banners out
C15_Witness ==
    /\ pc = "done"
    /\ FolderCount = 2
    /\ Len(Banners) = 4
    /\ \E i \in 1 .. Len(reported) : reported[i].msg.idx = 2

-----------------------------------------------------------------------------
(* What the claim about keep_duplicates = true expects of a run *)

KeepsDuplicates == ValueOf(configs, "keep_duplicates") = TRUE

\* the configured folders, and the folders files are moved to under them
Roots == {Parts(ValueOf(configs, "folder_paths")[i]) : i \in 1 .. FolderCount}

TargetFolders ==
    LET map == ValueOf(configs, "extension_to_folder")
    IN  {root \o Parts(t) : root \in Roots,
                            t \in {map[i][2] : i \in 1 .. Len(map)} \cup {OTHERS}}

\* the regular files at or below a folder
RegularFiles(f, root) == {p \in DOMAIN f : IsUnder(root, p) /\ f[p].kind = "file"}

RunOver == pc \in {"done", "raised"}

SameCounts ==
    \A root \in Roots :
        Cardinality(RegularFiles(fs, root)) = Cardinality(RegularFiles(fsRun, root))

\* C16 as stated: after a run with keep_duplicates = true every regular file that
\* was in a target folder is at the same path with the same content, and each
\* root holds as many regular files as before
C16_TargetFilesStayInPlace ==
    (RunOver /\ KeepsDuplicates) =>
        /\ \A p \in DOMAIN fsRun :
               (fsRun[p].kind = "file" /\ Parent(p) \in TargetFolders) =>
                   (p \in DOMAIN fs /\ fs[p] = fsRun[p])
        /\ SameCounts

\* a configured folder that lies inside another configured folder
Nested(root) == \E r \in Roots : r # root /\ IsUnder(r, root)

\* C16: with keep_duplicates = true nothing is overwritten or deleted, at any point
\* of a run: the regular files there are, told by content, are those there were;
\* a file stays at its path unless the folder it is in is itself a configured
\* folder; a root not inside another root holds as many regular files as before;
\* and when no root is inside another, the files of the target folders are where
\* they were
C16_NothingOverwrittenOrDeleted ==
    KeepsDuplicates =>
        /\ \A p \in DOMAIN fsRun :
               fsRun[p].kind = "file" =>
                   /\ \E q \in DOMAIN fs : fs[q] = fsRun[p]
                   /\ Parent(p) \notin Roots => (p \in DOMAIN fs /\ fs[p] = fsRun[p])
        /\ \A q \in DOMAIN fs :
               fs[q].kind = "file" => \E p \in DOMAIN fsRun : fsRun[p] = fs[q]
        /\ \A root \in Roots :
               ~Nested(root) =>
                   Cardinality(RegularFiles(fs, root))
                       = Cardinality(RegularFiles(fsRun, root))
        /\ (\A root \in Roots : ~Nested(root)) =>
               /\ SameCounts
               /\ \A p \in DOMAIN fsRun :
                      (fsRun[p].kind = "file" /\ Parent(p) \in TargetFolders) =>
                          (p \in DOMAIN fs /\ fs[p] = fsRun[p])

\* C16's case: a finished run that moved a.t into a folder already holding a.t and
\* "a (1).t", all three still there
C16_Witness ==
    /\ RunOver /\ KeepsDuplicates /\ pc = "done"
    /\ FolderCount = 1
    /\ {XD \o <<S_a_t>>, XD \o <<DupName(S_a_t, 1)>>} \subseteq DOMAIN fsRun
    /\ {XD \o <<S_a_t>>, XD \o <<DupName(S_a_t, 1)>>, XD \o <<DupName(S_a_t, 2)>>}
           \subseteq DOMAIN fs
    /\ fsRun[XD \o <<S_a_t>>] = FileNode(6)
    /\ fs[XD \o <<S_a_t>>] = FileNode(6)
    /\ fs[XD \o <<DupName(S_a_t, 1)>>] = FileNode(11)
    /\ fs[XD \o <<DupName(S_a_t, 2)>>] = FileNode(1)

====
